---- MODULE Spec2Model ----
(***************************************************************************)
(* Model of the Alpaca access layer (alpaca_cli.py) and of its three       *)
(* front-ends: the command-line tool (alpaca_cli.main) and the two Flask   *)
(* servers (Alpaca.py and api.py).                                         *)
(*                                                                         *)
(* A behaviour is a succession of process runs against one remote          *)
(* provider.  A command-line run is one step (main runs to termination);   *)
(* a server run is a start-up step followed by request-handling steps.     *)
(* The provider is the environment: what it answers to a call is an input  *)
(* of the step that issues the call.                                       *)
(***************************************************************************)
EXTENDS Integers, Sequences, FiniteSets, TLC

(***************************************************************************)
(* Bounds                                                                  *)
(***************************************************************************)
MaxRuns == 2          \* process runs in one behaviour
MaxRequests == 2      \* HTTP requests served by one server run
MaxPositions == 2     \* positions in one provider answer
MaxOrders == 1        \* orders in one provider answer

(***************************************************************************)
(* Python values.  A value carries its type so that `in`, truthiness and   *)
(* jsonify can branch on it as the interpreter does.                       *)
(***************************************************************************)
None == [t |-> "None"]
Dict(d) == [t |-> "dict", d |-> d]
List(l) == [t |-> "list", l |-> l]
NotReturned == [t |-> "raised"]

NoExc == "none"

\* `key in data`: key membership for a dict, element membership for a
\* list.  The elements of the lists built here are dicts, and a str never
\* equals a dict, so a str is in none of these lists.
Contains(key, data) == data.t = "dict" /\ key \in DOMAIN data.d

\* `not data`
Falsy(data) ==
    \/ data.t = "None"
    \/ data.t = "list" /\ data.l = <<>>
    \/ data.t = "dict" /\ DOMAIN data.d = {}

(***************************************************************************)
(* float(): numeric strings are sequences of characters; the value is kept *)
(* in ten-thousandths.  The strings enumerated below use an optional       *)
(* sign, digits and an optional fraction; anything else is a ValueError.   *)
(***************************************************************************)
Scale == 10000
Digits == {"0", "1", "2", "3", "4", "5", "6", "7", "8", "9"}
DigitVal(c) ==
    CASE c = "0" -> 0 [] c = "1" -> 1 [] c = "2" -> 2 [] c = "3" -> 3
      [] c = "4" -> 4 [] c = "5" -> 5 [] c = "6" -> 6 [] c = "7" -> 7
      [] c = "8" -> 8 [] c = "9" -> 9

RECURSIVE IntPart(_, _)
\* Leading digits of s: [v |-> value, rest |-> what follows, n |-> how many]
IntPart(s, acc) ==
    IF s # <<>> /\ Head(s) \in Digits
    THEN IntPart(Tail(s), [v |-> acc.v * 10 + DigitVal(Head(s)), n |-> acc.n + 1])
    ELSE [v |-> acc.v, n |-> acc.n, rest |-> s]

RECURSIVE FracPart(_, _, _)
\* Fraction digits of s, weighted from `unit` downwards
FracPart(s, unit, acc) ==
    IF s # <<>> /\ Head(s) \in Digits
    THEN FracPart(Tail(s), unit \div 10,
                  [v |-> acc.v + DigitVal(Head(s)) * unit, n |-> acc.n + 1])
    ELSE [v |-> acc.v, n |-> acc.n, rest |-> s]

\* The fraction after the integer part ip, if a point follows it
Fraction(ip) ==
    IF ip.rest # <<>> /\ Head(ip.rest) = "."
    THEN FracPart(Tail(ip.rest), Scale \div 10, [v |-> 0, n |-> 0])
    ELSE [v |-> 0, n |-> 0, rest |-> ip.rest]

\* The value of sign, integer part and fraction; a ValueError if nothing
\* was a digit or something is left over
Decimal(neg, ip, fp) ==
    IF fp.rest = <<>> /\ ip.n + fp.n > 0
    THEN [ok |-> TRUE, v |-> IF neg THEN 0 - (ip.v * Scale + fp.v) ELSE ip.v * Scale + fp.v]
    ELSE [ok |-> FALSE, v |-> 0]

Signed(neg, ip) == Decimal(neg, ip, Fraction(ip))

float(s) ==
    Signed(s # <<>> /\ Head(s) = "-",
           IntPart(IF s # <<>> /\ Head(s) \in {"-", "+"} THEN Tail(s) ELSE s, [v |-> 0, n |-> 0]))

ValueErrorMsg == "could not convert string to float"

(***************************************************************************)
(* Format specifications of the f-strings, as sequences of characters:     *)
(* [align][sign][width][grouping][.precision][type], in this order.        *)
(***************************************************************************)
SkipOne(s, set) == IF s # <<>> /\ Head(s) \in set THEN Tail(s) ELSE s

RECURSIVE SkipDigits(_)
SkipDigits(s) == IF s # <<>> /\ Head(s) \in Digits THEN SkipDigits(Tail(s)) ELSE s

FormatSpecValid(s) ==
    LET a == SkipOne(s, {"<", ">", "^", "="})
        b == SkipOne(a, {"+", "-", " "})
        c == SkipDigits(b)
        d == SkipOne(c, {",", "_"})
        e == IF d # <<>> /\ Head(d) = "." THEN SkipDigits(Tail(d)) ELSE d
        f == SkipOne(e, {"f", "d", "s", "e", "g", "%"})
    IN f = <<>>

(***************************************************************************)
(* The provider (alpaca_trade_api.rest.REST): what a call can answer.      *)
(***************************************************************************)
NumStrs == { <<"1", "0", "0", ".", "5", "0">>, <<"-", "2", "5">>, <<"a", "b", "c">> }
ApiMessages == {"insufficient buying power", "forbidden."}
TransportMessage == "connection refused"

GoodAccount ==
    [id |-> "acct-1", status |-> "ACTIVE", currency |-> "USD",
     portfolio_value |-> <<"1", "0", "0", ".", "5", "0">>,
     buying_power |-> <<"2", "0", "1">>,
     cash |-> <<"1", "0", "0", ".", "5", "0">>,
     equity |-> <<"1", "0", "0", ".", "5", "0">>,
     pattern_day_trader |-> FALSE]
Accounts ==
    { [GoodAccount EXCEPT !.cash = c, !.status = st, !.pattern_day_trader = (st # "ACTIVE")] :
          c \in NumStrs, st \in {"ACTIVE", "ACCOUNT_UPDATED"} }
        \cup { [GoodAccount EXCEPT !.equity = <<"a", "b", "c">>] }

LongPos ==
    [symbol |-> "AAPL", qty |-> <<"1", "0">>, market_value |-> <<"1", "0", "0", ".", "5", "0">>,
     avg_entry_price |-> <<"9", ".", "5">>, current_price |-> <<"1", "0", ".", "0", "5">>,
     unrealized_pl |-> <<"5", ".", "5", "0">>, unrealized_plpc |-> <<"0", ".", "0", "5", "3", "2">>]
ShortPos ==
    [symbol |-> "MSFT", qty |-> <<"-", "2", "5">>, market_value |-> <<"-", "2", "5", "0">>,
     avg_entry_price |-> <<"9", ".", "5">>, current_price |-> <<"1", "0">>,
     unrealized_pl |-> <<"-", "1", "2", ".", "5">>, unrealized_plpc |-> <<"-", "0", ".", "0", "5">>]
BadPos == [LongPos EXCEPT !.symbol = "TSLA", !.qty = <<"a", "b", "c">>]
ProviderPositions == {LongPos, ShortPos, BadPos}

\* An order attribute the provider left out reads as the falsy ""
Absent == ""
ProviderOrders ==
    { [id |-> "o-1", symbol |-> "AAPL", qty |-> "10", side |-> "buy", type |-> "market", status |-> "new"],
      [id |-> "o-2", symbol |-> Absent, qty |-> Absent, side |-> "sell", type |-> "limit", status |-> "filled"] }

SeqsUpTo(S, n) == UNION { [1..k -> S] : k \in 0..n }

NoResp == [kind |-> "none", msg |-> ""]
Ok(obj) == [kind |-> "ok", msg |-> "", obj |-> obj]
Failures ==
    { [kind |-> "APIError", msg |-> m] : m \in ApiMessages }
        \cup { [kind |-> "ConnectionError", msg |-> TransportMessage] }

\* The answers of each REST method.  submit_order either fails or accepts
\* the order and answers with the order it was given ("echo").
Responses(method) ==
    Failures \cup
    CASE method = "get_account" -> { Ok(a) : a \in Accounts }
      [] method = "list_positions" -> { Ok(l) : l \in SeqsUpTo(ProviderPositions, MaxPositions) }
      [] method = "list_orders" -> { Ok(l) : l \in SeqsUpTo(ProviderOrders, MaxOrders) }
      [] method = "submit_order" -> { Ok("echo") }

\* The order object an accepting provider answers to submit_order(args)
SubmittedOrder(args) ==
    [id |-> "o-new", symbol |-> args.symbol, qty |-> args.qty, side |-> args.side,
     type |-> args.type, status |-> "accepted"]

(***************************************************************************)
(* Outcome of a function: the value it returns or the exception it lets    *)
(* escape, with the provider calls it issued and the lines it printed.     *)
(***************************************************************************)
Line(text, val) == [text |-> text, val |-> val]
Call(method, args) == [method |-> method, args |-> args]
NoCallArgs == [none |-> TRUE]

Returns(v, calls) == [ret |-> v, exc |-> NoExc, msg |-> "", calls |-> calls]
Raises(exc, msg, calls) == [ret |-> NotReturned, exc |-> exc, msg |-> msg, calls |-> calls]

(***************************************************************************)
(* alpaca_cli.py: credential resolution                                    *)
(***************************************************************************)
\* The environments a run can start in.  The first two hold both
\* variables alpaca_cli.py requires; the last holds API_KEY_ID and
\* API_SECRET_KEY, the names of the specification.
Environments ==
    { {"APCA_API_KEY_ID", "APCA_API_SECRET_KEY", "API_SECRET_KEY"},
      {"APCA_API_KEY_ID", "APCA_API_SECRET_KEY", "APCA_API_BASE_URL"},
      {"APCA_API_SECRET_KEY"},
      {"APCA_API_KEY_ID", "API_KEY_ID"},
      {"API_KEY_ID", "API_SECRET_KEY"} }

NoSession == [open |-> FALSE, base_url |-> ""]
REST(base_url) == [open |-> TRUE, base_url |-> base_url]

Running == -1     \* exit status of a process that has not terminated

\* setup_api_client reading the variables with os.environ.get: nothing is
\* raised for a missing one
setup_api_client_lenient(e) ==
    [exit |-> Running,
     api |-> REST(IF "APCA_API_BASE_URL" \in e THEN "$APCA_API_BASE_URL"
                  ELSE "https://paper-api.alpaca.markets"),
     out |-> <<>>]

\* The first missing variable raises KeyError: the message is printed and
\* the process exits with status 1.
setup_api_client(e) ==
    IF "APCA_API_KEY_ID" \notin e
    THEN [exit |-> 1, api |-> NoSession,
          out |-> <<Line("Critical Error: Environment variable not set", "APCA_API_KEY_ID")>>]
    ELSE IF "APCA_API_SECRET_KEY" \notin e
    THEN [exit |-> 1, api |-> NoSession,
          out |-> <<Line("Critical Error: Environment variable not set", "APCA_API_SECRET_KEY")>>]
    ELSE [exit |-> Running,
          api |-> REST(IF "APCA_API_BASE_URL" \in e THEN "$APCA_API_BASE_URL"
                       ELSE "https://paper-api.alpaca.markets"),
          out |-> <<>>]

\* api.py imports setup_api_client_from_env from alpaca_cli, which does not
\* define it: this is the Credential Resolver as the specification
\* describes it (sections 4.1 and 6).
setup_api_client_from_env(e) ==
    IF "API_KEY_ID" \notin e
    THEN [exit |-> 1, api |-> NoSession,
          out |-> <<Line("Configuration error: missing value", "API_KEY_ID")>>]
    ELSE IF "API_SECRET_KEY" \notin e
    THEN [exit |-> 1, api |-> NoSession,
          out |-> <<Line("Configuration error: missing value", "API_SECRET_KEY")>>]
    ELSE [exit |-> Running,
          api |-> REST(IF "API_BASE_URL" \in e THEN "$API_BASE_URL"
                       ELSE "https://paper-api.alpaca.markets"),
          out |-> <<>>]

(***************************************************************************)
(* alpaca_cli.py: the functions that return data                           *)
(***************************************************************************)
\* get_account_status_data with a field that does not parse left at zero
get_account_status_data_zeroing(api, resp) ==
    LET calls == <<Call("get_account", NoCallArgs)>>
        account == resp.obj
    IN IF resp.kind = "ok"
       THEN Returns(Dict([id |-> account.id,
                          status |-> account.status,
                          currency |-> account.currency,
                          portfolio_value |-> float(account.portfolio_value).v,
                          buying_power |-> float(account.buying_power).v,
                          cash |-> float(account.cash).v,
                          equity |-> float(account.equity).v,
                          pattern_day_trader |-> account.pattern_day_trader]),
                    calls)
       ELSE IF resp.kind = "APIError"
       THEN Returns(Dict([error |-> resp.msg]), calls)
       ELSE Raises(resp.kind, resp.msg, calls)

\* The dict built from the account once its four amounts went through
\* float(); a ValueError if one of them did not parse
AccountDict(account, portfolio_value, buying_power, cash, equity, calls) ==
    IF portfolio_value.ok /\ buying_power.ok /\ cash.ok /\ equity.ok
    THEN Returns(Dict([id |-> account.id,
                       status |-> account.status,
                       currency |-> account.currency,
                       portfolio_value |-> portfolio_value.v,
                       buying_power |-> buying_power.v,
                       cash |-> cash.v,
                       equity |-> equity.v,
                       pattern_day_trader |-> account.pattern_day_trader]),
                 calls)
    ELSE Raises("ValueError", ValueErrorMsg, calls)

get_account_status_data(api, resp) ==
    IF resp.kind = "ok"
    THEN AccountDict(resp.obj, float(resp.obj.portfolio_value), float(resp.obj.buying_power),
                     float(resp.obj.cash), float(resp.obj.equity),
                     <<Call("get_account", NoCallArgs)>>)
    ELSE IF resp.kind = "APIError"
    THEN Returns(Dict([error |-> resp.msg]), <<Call("get_account", NoCallArgs)>>)
    ELSE Raises(resp.kind, resp.msg, <<Call("get_account", NoCallArgs)>>)

PositionNumKeys ==
    {"qty", "market_value", "avg_entry_price", "current_price", "unrealized_pl", "unrealized_plpc"}

\* One element of the list comprehension
PositionDict(pos) ==
    [symbol |-> pos.symbol,
     qty |-> float(pos.qty).v,
     market_value |-> float(pos.market_value).v,
     avg_entry_price |-> float(pos.avg_entry_price).v,
     current_price |-> float(pos.current_price).v,
     unrealized_pl |-> float(pos.unrealized_pl).v,
     unrealized_plpc |-> float(pos.unrealized_plpc).v]

list_positions_data(api, resp) ==
    LET calls == <<Call("list_positions", NoCallArgs)>>
        positions == resp.obj
    IN IF resp.kind = "ok"
       THEN IF \A i \in 1..Len(positions) : \A k \in PositionNumKeys : float(positions[i][k]).ok
            THEN Returns(List([i \in 1..Len(positions) |-> PositionDict(positions[i])]), calls)
            ELSE Raises("ValueError", ValueErrorMsg, calls)
       ELSE IF resp.kind = "APIError"
       THEN Returns(Dict([error |-> resp.msg]), calls)
       ELSE Raises(resp.kind, resp.msg, calls)

(***************************************************************************)
(* alpaca_cli.py: the command functions.  Their outcome carries the        *)
(* outcome of the operation they perform (facade), the exception that      *)
(* escapes them (exc), what they print (out), the provider calls issued    *)
(* (calls) and the order confirmation printed (confirmation).              *)
(***************************************************************************)
NoOrder == [id |-> "", symbol |-> "", qty |-> 0, side |-> "", type |-> "", status |-> ""]

Facade(op, r) == [op |-> op, ret |-> r.ret, exc |-> r.exc, msg |-> r.msg]
NoFacade == [op |-> "none", ret |-> NotReturned, exc |-> NoExc, msg |-> ""]

Command(facade, exc, out, calls, confirmation) ==
    [facade |-> facade, exc |-> exc, out |-> out, calls |-> calls, confirmation |-> confirmation]

\* A replacement field {data[key]:spec} of an f-string; Local stands for a
\* local variable or literal in place of data[key].
Local == ""
Field(key, spec) == [key |-> key, spec |-> spec]
\* A statement: the fields it evaluates, and the line it prints ("" if it
\* is an assignment)
Stmt(text, fields) == [text |-> text, fields |-> fields]

RECURSIVE EvalFields(_, _)
\* Evaluates the fields in order: the subscript first, then the format
EvalFields(fields, d) ==
    IF fields = <<>> THEN NoExc
    ELSE LET f == Head(fields)
         IN IF f.key # Local /\ f.key \notin DOMAIN d THEN "KeyError"
            ELSE IF ~FormatSpecValid(f.spec) THEN "ValueError"
            ELSE EvalFields(Tail(fields), d)

RECURSIVE RunStmts(_, _, _)
\* Runs the statements on the dict d, appending the printed lines to out,
\* up to the first statement that raises
RunStmts(stmts, d, out) ==
    IF stmts = <<>> THEN [out |-> out, exc |-> NoExc]
    ELSE LET st == Head(stmts)
             e == EvalFields(st.fields, d)
         IN IF e # NoExc THEN [out |-> out, exc |-> e]
            ELSE RunStmts(Tail(stmts), d,
                          IF st.text = "" THEN out ELSE Append(out, Line(st.text, "")))

Plain == <<>>
AccountStmts ==
    << Stmt("Fetching Account Status", <<>>),
       Stmt("", <<Field("status", Plain)>>),
       Stmt("Account Status", <<Field(Local, Plain), Field("id", Plain)>>),
       Stmt("Currency", <<Field("currency", Plain)>>),
       Stmt("Portfolio Value", <<Field("portfolio_value", <<",", " ", ".", "2", "f">>)>>),
       Stmt("Buying Power", <<Field("buying_power", <<",", " ", ".", "2", "f">>)>>),
       Stmt("Daytrade Count", <<Field("daytrade_count", Plain)>>),
       Stmt("Pattern Day Trader", <<Field("pattern_day_trader", Plain)>>) >>

\* get_account_status once get_account_status_data has come back with r
ShowAccount(r) ==
    IF r.exc # NoExc
    THEN Command(Facade("get_account_status_data", r), r.exc, <<>>, r.calls, NoOrder)
    ELSE IF Contains("error", r.ret)
    THEN Command(Facade("get_account_status_data", r), NoExc,
                 <<Line("API Error fetching account", r.ret.d.error)>>, r.calls, NoOrder)
    ELSE Command(Facade("get_account_status_data", r),
                 RunStmts(AccountStmts, r.ret.d, <<>>).exc,
                 RunStmts(AccountStmts, r.ret.d, <<>>).out, r.calls, NoOrder)

get_account_status(api, args, resp) == ShowAccount(get_account_status_data(api, resp))

PositionStmts ==
    << Stmt("", <<Field("unrealized_pl", <<",", " ", ".", "2", "f">>)>>),
       Stmt("", <<Field("unrealized_plpc", <<",", ".", "2", "f">>)>>),
       Stmt("position row",
            <<Field("symbol", <<"<", "1", "0">>), Field("qty", <<"<", "1", "0">>),
              Field("avg_entry_price", <<"<", "1", "7", ",", ".", "2", "f">>),
              Field("current_price", <<"<", "1", "4", ",", ".", "2", "f">>),
              Field(Local, <<"<", "1", "5">>), Field(Local, <<"<", "1", "5">>)>>) >>

RECURSIVE ForEachPosition(_, _)
ForEachPosition(l, out) ==
    IF l = <<>> THEN [out |-> out, exc |-> NoExc]
    ELSE LET row == RunStmts(PositionStmts, Head(l), out)
         IN IF row.exc # NoExc THEN row ELSE ForEachPosition(Tail(l), row.out)

PositionsHead ==
    <<Line("Fetching Open Positions", ""), Line("Symbol Qty ...", ""), Line("-----", "")>>

\* list_positions once list_positions_data has come back with r
ShowPositions(r) ==
    IF r.exc # NoExc
    THEN Command(Facade("list_positions_data", r), r.exc, <<>>, r.calls, NoOrder)
    ELSE IF Contains("error", r.ret)
    THEN Command(Facade("list_positions_data", r), NoExc,
                 <<Line("API Error listing positions", r.ret.d.error)>>, r.calls, NoOrder)
    ELSE IF Falsy(r.ret)
    THEN Command(Facade("list_positions_data", r), NoExc,
                 <<Line("No open positions found.", "")>>, r.calls, NoOrder)
    ELSE Command(Facade("list_positions_data", r),
                 ForEachPosition(r.ret.l, PositionsHead).exc,
                 ForEachPosition(r.ret.l, PositionsHead).out, r.calls, NoOrder)

list_positions(api, args, resp) == ShowPositions(list_positions_data(api, resp))

\* place_order submitting a second time after an APIError
place_order_retry(api, args, resp) ==
    LET head == <<Line("Placing Order", args.symbol)>>
        call == Call("submit_order",
                     [symbol |-> args.symbol, qty |-> args.qty, side |-> args.side,
                      type |-> args.type, time_in_force |-> args.time_in_force])
        order == SubmittedOrder(call.args)
    IN IF resp.kind = "ok"
       THEN Command(Facade("place_order", Returns(None, <<call>>)), NoExc,
                    head \o <<Line("Order submitted successfully!", ""), Line("ID", order.id),
                              Line("Symbol", order.symbol), Line("Qty", ""),
                              Line("Side", order.side), Line("Type", order.type),
                              Line("Status", order.status)>>,
                    <<call>>, order)
       ELSE IF resp.kind = "APIError"
       THEN Command(Facade("place_order", Returns(None, <<call>>)), NoExc,
                    Append(head, Line("API Error placing order", resp.msg)), <<call, call>>, NoOrder)
       ELSE Command(Facade("place_order", Raises(resp.kind, resp.msg, <<call>>)), resp.kind,
                    head, <<call>>, NoOrder)

\* place_order submitting every order as a market order
place_order_market_only(api, args, resp) ==
    LET head == <<Line("Placing Order", args.symbol)>>
        call == Call("submit_order",
                     [symbol |-> args.symbol, qty |-> args.qty, side |-> args.side,
                      type |-> "market", time_in_force |-> args.time_in_force])
        order == SubmittedOrder(call.args)
    IN IF resp.kind = "ok"
       THEN Command(Facade("place_order", Returns(None, <<call>>)), NoExc,
                    head \o <<Line("Order submitted successfully!", ""), Line("ID", order.id),
                              Line("Symbol", order.symbol), Line("Qty", ""),
                              Line("Side", order.side), Line("Type", order.type),
                              Line("Status", order.status)>>,
                    <<call>>, order)
       ELSE IF resp.kind = "APIError"
       THEN Command(Facade("place_order", Returns(None, <<call>>)), NoExc,
                    Append(head, Line("API Error placing order", resp.msg)), <<call>>, NoOrder)
       ELSE Command(Facade("place_order", Raises(resp.kind, resp.msg, <<call>>)), resp.kind,
                    head, <<call>>, NoOrder)

place_order(api, args, resp) ==
    LET head == <<Line("Placing Order", args.symbol)>>
        call == Call("submit_order",
                     [symbol |-> args.symbol, qty |-> args.qty, side |-> args.side,
                      type |-> args.type, time_in_force |-> args.time_in_force])
        order == SubmittedOrder(call.args)
    IN IF resp.kind = "ok"
       THEN Command(Facade("place_order", Returns(None, <<call>>)), NoExc,
                    head \o <<Line("Order submitted successfully!", ""), Line("ID", order.id),
                              Line("Symbol", order.symbol), Line("Qty", ""),
                              Line("Side", order.side), Line("Type", order.type),
                              Line("Status", order.status)>>,
                    <<call>>, order)
       ELSE IF resp.kind = "APIError"
       THEN Command(Facade("place_order", Returns(None, <<call>>)), NoExc,
                    Append(head, Line("API Error placing order", resp.msg)), <<call>>, NoOrder)
       ELSE Command(Facade("place_order", Raises(resp.kind, resp.msg, <<call>>)), resp.kind,
                    head, <<call>>, NoOrder)

OrNA(x) == IF x = Absent THEN "N/A" ELSE x

list_orders(api, args, resp) ==
    LET head == <<Line("Fetching Orders", args.status)>>
        call == Call("list_orders", [status |-> args.status, limit |-> args.limit])
        orders == resp.obj
        rows == [i \in 1..Len(orders) |-> Line("order row", OrNA(orders[i].symbol))]
    IN IF resp.kind = "ok"
       THEN IF orders = <<>>
            THEN Command(Facade("list_orders", Returns(None, <<call>>)), NoExc,
                         Append(head, Line("No orders found with status", args.status)),
                         <<call>>, NoOrder)
            ELSE Command(Facade("list_orders", Returns(None, <<call>>)), NoExc,
                         head \o <<Line("ID Symbol ...", ""), Line("-----", "")>> \o rows,
                         <<call>>, NoOrder)
       ELSE IF resp.kind = "APIError"
       THEN Command(Facade("list_orders", Returns(None, <<call>>)), NoExc,
                    Append(head, Line("API Error listing orders", resp.msg)), <<call>>, NoOrder)
       ELSE Command(Facade("list_orders", Raises(resp.kind, resp.msg, <<call>>)), resp.kind,
                    head, <<call>>, NoOrder)

(***************************************************************************)
(* alpaca_cli.py: main().  An option of the command line is <<>> when      *)
(* omitted and <<v>> when given.                                           *)
(***************************************************************************)
Opt(S) == {<<>>} \cup { <<v>> : v \in S }
OrDefault(opt, default) == IF opt = <<>> THEN default ELSE opt[1]

Symbols == {"AAPL", "MSFT"}
Qtys == {10, 3}
Limits == {0, -1, 5}

NoArgv == [cmd |-> "none"]
Argvs ==
    { [cmd |-> c] : c \in {"account", "positions", "--help", "bogus"} }
    \cup { [cmd |-> "orders list", status |-> s, limit |-> l] :
              s \in Opt({"all", "filled"}), l \in Opt(Limits) }
    \cup { [cmd |-> "orders place", symbol |-> sy, qty |-> q, side |-> sd, type |-> o[1],
            time_in_force |-> o[2]] :
              sy \in Symbols, q \in Qtys, sd \in {"buy", "sell"},
              o \in { <<<<>>, <<>>>>, << <<"limit">>, <<"day">> >> } }

NoArgs == [func |-> "none"]
Parsed(args) == [exit |-> Running, args |-> args]
ParserExit(status) == [exit |-> status, args |-> NoArgs]

\* parser.parse_args(): --help exits with status 0, a command line outside
\* the grammar with status 2
parse_args(argv) ==
    CASE argv.cmd = "account" -> Parsed([func |-> "get_account_status"])
      [] argv.cmd = "positions" -> Parsed([func |-> "list_positions"])
      [] argv.cmd = "orders list" ->
            IF OrDefault(argv.status, "open") \in {"open", "closed", "all"}
            THEN Parsed([func |-> "list_orders",
                         status |-> OrDefault(argv.status, "open"),
                         limit |-> OrDefault(argv.limit, 50)])
            ELSE ParserExit(2)
      [] argv.cmd = "orders place" ->
            Parsed([func |-> "place_order", symbol |-> argv.symbol, qty |-> argv.qty,
                    side |-> argv.side,
                    type |-> OrDefault(argv.type, "market"),
                    time_in_force |-> OrDefault(argv.time_in_force, "gtc")])
      [] argv.cmd = "--help" -> ParserExit(0)
      [] OTHER -> ParserExit(2)

\* The REST method a command function calls
MethodOf(func) ==
    CASE func = "get_account_status" -> "get_account"
      [] func = "list_positions" -> "list_positions"
      [] func = "list_orders" -> "list_orders"
      [] func = "place_order" -> "submit_order"

\* args.func(api, args)
Dispatch(api, args, resp) ==
    CASE args.func = "get_account_status" -> get_account_status(api, args, resp)
      [] args.func = "list_positions" -> list_positions(api, args, resp)
      [] args.func = "list_orders" -> list_orders(api, args, resp)
      [] args.func = "place_order" -> place_order(api, args, resp)

(***************************************************************************)
(* State                                                                   *)
(***************************************************************************)
VARIABLES
    frontend,        \* the program of the current run: "none", "cli", "Alpaca", "api"
    run,             \* number of runs started
    env,             \* names set in the environment of the run (after load_dotenv)
    argv,            \* command line of the run
    session,         \* the REST client of the run (api / trading_client)
    exit_status,     \* exit status of the run, Running until it terminates
    stdout,          \* lines printed by the run
    result,          \* outcome of the latest operation of the run
    confirmation,    \* the order confirmation printed by place_order
    response,        \* the latest HTTP response of the run
    requests,        \* HTTP requests served by the run
    last_resp,       \* what the provider answered to the latest call of the run
    last_call,       \* the latest provider call of the run
    run_calls,       \* provider calls issued by the run
    invoked,         \* per operation, invocations over all runs
    provider_calls   \* per REST method, calls over all runs

vars ==
    <<frontend, run, env, argv, session, exit_status, stdout, result, confirmation,
      response, requests, last_resp, last_call, run_calls, invoked, provider_calls>>

Operations == {"get_account_status_data", "list_positions_data", "list_orders", "place_order"}
Methods == {"get_account", "list_positions", "list_orders", "submit_order"}

NoCall == Call("none", NoCallArgs)
NoResponse == [status |-> 0, body |-> [j |-> "none"]]

\* flask.jsonify: a dict becomes a JSON object, a list a JSON array
jsonify(v) ==
    IF v.t = "dict" THEN [j |-> "object", v |-> v.d]
    ELSE IF v.t = "list" THEN [j |-> "array", v |-> v.l]
    ELSE [j |-> "null"]

\* What Flask answers when a view lets an exception escape
InternalServerError == [status |-> 500, body |-> [j |-> "html"]]

Init ==
    /\ frontend = "none"
    /\ run = 0
    /\ env = {}
    /\ argv = NoArgv
    /\ session = NoSession
    /\ exit_status = Running
    /\ stdout = <<>>
    /\ result = NoFacade
    /\ confirmation = NoOrder
    /\ response = NoResponse
    /\ requests = 0
    /\ last_resp = NoResp
    /\ last_call = NoCall
    /\ run_calls = 0
    /\ invoked = [op \in Operations |-> 0]
    /\ provider_calls = [m \in Methods |-> 0]

\* A new process can start when none is running
CanStart == run < MaxRuns /\ (frontend = "none" \/ exit_status # Running)

RECURSIVE Tally(_, _)
\* provider_calls after the calls of one operation
Tally(calls, count) ==
    IF calls = <<>> THEN count
    ELSE Tally(Tail(calls), [count EXCEPT ![Head(calls).method] = @ + 1])

(***************************************************************************)
(* alpaca_cli.py: one run of the command-line tool                         *)
(***************************************************************************)
\* The answers the provider can give in a run of main: those of the method
\* the command calls, if the run gets as far as calling it
MainResponses(e, av) ==
    IF parse_args(av).exit = Running /\ setup_api_client(e).exit = Running
    THEN Responses(MethodOf(parse_args(av).args.func))
    ELSE {NoResp}

\* The run of main: p is what parse_args gave, c what setup_api_client
\* gave, o the outcome of args.func(api, args)
Ran(e, av, resp, p, c, o) ==
    /\ frontend' = "cli"
    /\ run' = run + 1
    /\ env' = e
    /\ argv' = av
    /\ response' = NoResponse
    /\ requests' = 0
    /\ last_resp' = resp
    /\ IF p.exit # Running
       THEN /\ exit_status' = p.exit
            /\ session' = NoSession
            /\ stdout' = <<Line("usage", "")>>
            /\ result' = NoFacade
            /\ confirmation' = NoOrder
            /\ last_call' = NoCall
            /\ run_calls' = 0
            /\ UNCHANGED <<invoked, provider_calls>>
       ELSE IF c.exit # Running
       THEN /\ exit_status' = c.exit
            /\ session' = NoSession
            /\ stdout' = c.out
            /\ result' = NoFacade
            /\ confirmation' = NoOrder
            /\ last_call' = NoCall
            /\ run_calls' = 0
            /\ UNCHANGED <<invoked, provider_calls>>
       ELSE /\ exit_status' = IF o.exc = NoExc THEN 0 ELSE 1
            /\ session' = c.api
            /\ stdout' = IF o.exc = NoExc THEN o.out
                          ELSE Append(o.out, Line("Traceback", o.exc))
            /\ result' = o.facade
            /\ confirmation' = o.confirmation
            /\ last_call' = IF o.calls = <<>> THEN NoCall ELSE o.calls[Len(o.calls)]
            /\ run_calls' = Len(o.calls)
            /\ invoked' = [invoked EXCEPT ![o.facade.op] = @ + 1]
            /\ provider_calls' = Tally(o.calls, provider_calls)

main(e, av, resp) ==
    /\ CanStart
    /\ Ran(e, av, resp, parse_args(av), setup_api_client(e),
           Dispatch(setup_api_client(e).api, parse_args(av).args, resp))

(***************************************************************************)
(* Alpaca.py and api.py: module start-up and the views                     *)
(***************************************************************************)
\* Importing the server module resolves the credentials once
ServerStart(name, c, e) ==
    /\ CanStart
    /\ frontend' = name
    /\ run' = run + 1
    /\ env' = e
    /\ argv' = NoArgv
    /\ session' = c.api
    /\ exit_status' = c.exit
    /\ stdout' = c.out
    /\ result' = NoFacade
    /\ confirmation' = NoOrder
    /\ response' = NoResponse
    /\ requests' = 0
    /\ last_resp' = NoResp
    /\ last_call' = NoCall
    /\ run_calls' = 0
    /\ UNCHANGED <<invoked, provider_calls>>

Alpaca_start(e) == ServerStart("Alpaca", setup_api_client(e), e)

api_start(e) == ServerStart("api", setup_api_client_from_env(e), e)

Serving(name) == frontend = name /\ exit_status = Running /\ requests < MaxRequests

\* A view that performs operation op with outcome r and answers resp_http
View(op, r, resp, resp_http) ==
    /\ requests' = requests + 1
    /\ result' = Facade(op, r)
    /\ response' = resp_http
    /\ last_resp' = resp
    /\ last_call' = IF r.calls = <<>> THEN last_call ELSE r.calls[Len(r.calls)]
    /\ run_calls' = run_calls + Len(r.calls)
    /\ invoked' = [invoked EXCEPT ![op] = @ + 1]
    /\ provider_calls' = Tally(r.calls, provider_calls)
    /\ UNCHANGED <<frontend, run, env, argv, session, exit_status, stdout, confirmation>>

\* Alpaca.py: 500 if "error" in data, else 200
AlpacaView(r) ==
    IF r.exc # NoExc THEN InternalServerError
    ELSE IF Contains("error", r.ret) THEN [status |-> 500, body |-> jsonify(r.ret)]
    ELSE [status |-> 200, body |-> jsonify(r.ret)]

Alpaca_get_account_info(resp) ==
    /\ Serving("Alpaca")
    /\ LET r == get_account_status_data(session, resp)
       IN View("get_account_status_data", r, resp, AlpacaView(r))

Alpaca_get_positions(resp) ==
    /\ Serving("Alpaca")
    /\ LET r == list_positions_data(session, resp)
       IN View("list_positions_data", r, resp, AlpacaView(r))

Alpaca_get_screen_stocks ==
    /\ Serving("Alpaca")
    /\ requests' = requests + 1
    /\ response' = [status |-> 200, body |-> jsonify(Dict([stocks |-> <<>>]))]
    /\ result' = NoFacade
    /\ last_resp' = NoResp
    /\ UNCHANGED <<frontend, run, env, argv, session, exit_status, stdout, confirmation,
                   last_call, run_calls, invoked, provider_calls>>

\* api.py: 200 with whatever was returned, 500 on any exception
ApiView(r) ==
    IF r.exc # NoExc THEN [status |-> 500, body |-> jsonify(Dict([error |-> r.msg]))]
    ELSE [status |-> 200, body |-> jsonify(r.ret)]

api_get_account_info(resp) ==
    /\ Serving("api")
    /\ LET r == get_account_status_data(session, resp)
       IN View("get_account_status_data", r, resp, ApiView(r))

api_get_positions(resp) ==
    /\ Serving("api")
    /\ LET r == list_positions_data(session, resp)
       IN View("list_positions_data", r, resp, ApiView(r))

Next ==
    \/ \E e \in Environments, av \in Argvs : \E resp \in MainResponses(e, av) : main(e, av, resp)
    \/ \E e \in Environments : Alpaca_start(e)
    \/ \E e \in Environments : api_start(e)
    \/ \E resp \in Responses("get_account") : Alpaca_get_account_info(resp)
    \/ \E resp \in Responses("list_positions") : Alpaca_get_positions(resp)
    \/ Alpaca_get_screen_stocks
    \/ \E resp \in Responses("get_account") : api_get_account_info(resp)
    \/ \E resp \in Responses("list_positions") : api_get_positions(resp)

Spec == Init /\ [][Next]_vars

(***************************************************************************)
(* Properties                                                              *)
(***************************************************************************)
IsErrorValue(v) == v.t = "dict" /\ DOMAIN v.d = {"error"}
ErrorValue(m) == Dict([error |-> m])

AccountKeys ==
    {"id", "status", "currency", "portfolio_value", "buying_power", "cash", "equity",
     "pattern_day_trader"}
AccountNumKeys == {"portfolio_value", "buying_power", "cash", "equity"}
PositionKeys == PositionNumKeys \cup {"symbol"}

DataOperations == {"get_account_status_data", "list_positions_data"}

\* The provider call of the latest operation failed at the provider level
ProviderFailed == result.op \in Operations /\ last_resp.kind \in {"APIError", "ConnectionError"}

\* C1: whenever the provider call of one of the four operations fails at
\* the provider level (API rejection or transport failure), the operation
\* returns {error: <provider message>} to its caller, raises nothing, and
\* the process does not crash.
C1_ProviderFailureReturnsErrorValue ==
    ProviderFailed =>
        /\ result.exc = NoExc
        /\ result.ret = ErrorValue(last_resp.msg)
        /\ exit_status \in {Running, 0}

\* A request of a server reached one of the two operations and was answered
Answered == frontend \in {"Alpaca", "api"} /\ result.op \in DataOperations /\ response # NoResponse

\* C2: a request to /api/account_info or /api/positions is answered 500
\* with body {"error": <message>} exactly when the operation produced an
\* ErrorValue, and 200 with the normalized structure when it returned
\* anything else; an ErrorValue never goes out with status 200.
C2_StatusMatchesErrorValue ==
    Answered =>
        /\ (response.status = 500 /\ response.body.j = "object" /\ DOMAIN response.body.v = {"error"})
               <=> IsErrorValue(result.ret)
        /\ (result.exc = NoExc /\ ~IsErrorValue(result.ret))
               => (response.status = 200 /\ response.body = jsonify(result.ret))
        /\ IsErrorValue(result.ret) => response.status # 200

\* The run got as far as resolving the credentials
ResolverReached(frontends) ==
    /\ frontend \in frontends
    /\ frontend = "cli" => parse_args(argv).exit = Running

\* Nothing of the access layer exists in the run
NothingProduced ==
    /\ ~session.open
    /\ run_calls = 0
    /\ result = NoFacade
    /\ response = NoResponse

\* C3 as stated: with API_KEY_ID missing and API_SECRET_KEY set,
\* credential resolution ends the process with a non-zero status and a
\* message naming API_KEY_ID, and the run has no session, no provider call
\* and no result, in the command-line tool and in the servers.
C3_AsStated ==
    (ResolverReached({"cli", "Alpaca", "api"}) /\ "API_KEY_ID" \notin env /\ "API_SECRET_KEY" \in env) =>
        /\ exit_status \notin {Running, 0}
        /\ \E i \in 1..Len(stdout) : stdout[i].val = "API_KEY_ID"
        /\ NothingProduced

\* C3, amended: the variables are APCA_API_KEY_ID and APCA_API_SECRET_KEY.
\* With APCA_API_KEY_ID missing and APCA_API_SECRET_KEY set, credential
\* resolution ends the process with status 1 and a message naming
\* APCA_API_KEY_ID, and the run has no session, no provider call and no
\* result, in alpaca_cli.main and at the start-up of Alpaca.py.
C3_MissingKeyIdTerminates ==
    (ResolverReached({"cli", "Alpaca"}) /\ "APCA_API_KEY_ID" \notin env /\ "APCA_API_SECRET_KEY" \in env) =>
        /\ exit_status = 1
        /\ \E i \in 1..Len(stdout) : stdout[i].val = "APCA_API_KEY_ID"
        /\ NothingProduced

C3_Witness ==
    /\ frontend = "cli"
    /\ argv.cmd = "orders place"
    /\ env = {"APCA_API_SECRET_KEY"}
    /\ exit_status = 1

\* get_account_status_data returned a value
AccountReturned == result.op = "get_account_status_data" /\ result.exc = NoExc

\* C4 as stated: every value get_account_status_data returns is either a
\* complete AccountStatus whose numeric fields are non-negative decimals,
\* or an ErrorValue with nothing but the message.
C4_AsStated ==
    AccountReturned =>
        \/ IsErrorValue(result.ret)
        \/ /\ result.ret.t = "dict"
           /\ DOMAIN result.ret.d = AccountKeys
           /\ \A k \in AccountNumKeys : result.ret.d[k] >= 0

\* C4, amended: every value get_account_status_data returns is either a
\* complete AccountStatus (all eight keys) whose numeric fields are the
\* decimals the provider reported, whatever their sign, or an ErrorValue
\* with nothing but the message.
C4_CompleteOrError ==
    AccountReturned =>
        \/ IsErrorValue(result.ret) /\ last_resp.kind # "ok"
        \/ /\ last_resp.kind = "ok"
           /\ result.ret.t = "dict"
           /\ DOMAIN result.ret.d = AccountKeys
           /\ \A k \in AccountNumKeys :
                  /\ float(last_resp.obj[k]).ok
                  /\ result.ret.d[k] = float(last_resp.obj[k]).v
                  /\ (result.ret.d[k] < 0) <=> (Head(last_resp.obj[k]) = "-")

C4_Witness ==
    /\ AccountReturned
    /\ last_resp.kind = "ok"
    /\ result.ret.d.cash = -250000
    /\ result.ret.d.buying_power = 2010000

\* The provider answered with a numeric field that float() rejects
Unparsable ==
    /\ result.op \in DataOperations
    /\ last_resp.kind = "ok"
    /\ IF result.op = "get_account_status_data"
       THEN \E k \in AccountNumKeys : ~float(last_resp.obj[k]).ok
       ELSE \E i \in 1..Len(last_resp.obj) : \E k \in PositionNumKeys : ~float(last_resp.obj[i][k]).ok

\* C5: when the provider call succeeds but a numeric field cannot be
\* parsed, the operation returns neither an ErrorValue nor a partial
\* result: the failure leaves the operation uncaught and no front-end
\* turns it into a result (the command-line run dies with the traceback,
\* a server answers with the framework's own error page).
C5_ParseFailurePropagates ==
    Unparsable =>
        /\ result.ret = NotReturned
        /\ result.exc = "ValueError"
        /\ frontend = "cli" => exit_status = 1
        /\ frontend # "cli" => response = InternalServerError

\* C6: a limit of 0 or below never reaches the provider: no list_orders
\* call is issued for it.
C6_NonPositiveLimitRejected ==
    /\ last_call.method = "list_orders" => last_call.args.limit > 0
    /\ (frontend = "cli" /\ argv.cmd = "orders list" /\ OrDefault(argv.limit, 50) <= 0)
           => run_calls = 0

\* C7: when the provider answers list_orders with no order, list_orders
\* returns an empty sequence: not an ErrorValue, not None.
C7_NoOrdersIsEmptySequence ==
    (result.op = "list_orders" /\ last_resp.kind = "ok" /\ last_resp.obj = <<>>) =>
        /\ result.exc = NoExc
        /\ result.ret = List(<<>>)

\* The REST method of an operation
MethodOfOp(op) ==
    CASE op = "get_account_status_data" -> "get_account"
      [] op = "list_positions_data" -> "list_positions"
      [] op = "list_orders" -> "list_orders"
      [] op = "place_order" -> "submit_order"

\* C8: each invocation of an operation issues exactly one provider call,
\* on success and on failure alike: over any number of runs the calls of
\* a method number the invocations of its operation, so n invocations of
\* place_order are n submissions.
C8_OneCallPerInvocation ==
    /\ \A op \in Operations : provider_calls[MethodOfOp(op)] = invoked[op]
    /\ (frontend = "cli" /\ result.op # "none") => run_calls = 1
    /\ frontend \in {"Alpaca", "api"} => run_calls <= requests

C8_Witness ==
    /\ invoked["place_order"] = 2
    /\ provider_calls["submit_order"] = 2
    /\ result.op = "place_order"
    /\ last_resp.kind = "APIError"

\* C9: place_order hands the symbol, quantity, side, type and
\* time-in-force of the command line unchanged to submit_order, with type
\* market and time-in-force gtc when omitted; when the provider accepts
\* and echoes the order, the confirmation shows the symbol and quantity
\* requested.
C9_OrderForwardedUnchanged ==
    result.op = "place_order" =>
        /\ last_call.method = "submit_order"
        /\ last_call.args.symbol = argv.symbol
        /\ last_call.args.qty = argv.qty
        /\ last_call.args.side = argv.side
        /\ last_call.args.type = (IF argv.type = <<>> THEN "market" ELSE argv.type[1])
        /\ last_call.args.time_in_force =
               (IF argv.time_in_force = <<>> THEN "gtc" ELSE argv.time_in_force[1])
        /\ last_resp.kind = "ok" =>
               (confirmation.symbol = argv.symbol /\ confirmation.qty = argv.qty)

C9_Witness ==
    /\ result.op = "place_order"
    /\ last_resp.kind = "ok"
    /\ argv.type = <<>>
    /\ argv.side = "buy"
    /\ confirmation.symbol = "AAPL"
    /\ confirmation.qty = 10
    /\ last_call.args.time_in_force = "gtc"

RECURSIVE KeysRead(_)
\* The keys a sequence of statements subscripts the dict with
KeysRead(stmts) ==
    IF stmts = <<>> THEN {}
    ELSE ({ Head(stmts).fields[i].key : i \in 1..Len(Head(stmts).fields) } \ {Local})
            \cup KeysRead(Tail(stmts))

\* A command-line run whose operation returned data
CliSuccess == frontend = "cli" /\ result.op \in DataOperations
                 /\ result.exc = NoExc /\ ~IsErrorValue(result.ret)

\* C10: the renderers of the command-line tool read only keys the
\* operations produce, so a successful provider call ends in a completed
\* rendering and exit status 0.
C10_RenderingCompletes ==
    CliSuccess =>
        /\ result.op = "get_account_status_data"
               => KeysRead(AccountStmts) \subseteq DOMAIN result.ret.d
        /\ result.op = "list_positions_data"
               => \A i \in 1..Len(result.ret.l) :
                      KeysRead(PositionStmts) \subseteq DOMAIN result.ret.l[i]
        /\ exit_status = 0
        /\ \A i \in 1..Len(stdout) : stdout[i].text # "Traceback"

====
